---- MODULE Spec2Model ----
(***************************************************************************)
(* Model of the LZ77-style block decompressor decompress_lz77_safe, in its *)
(* two copies (comprehensive_graphics_analysis.py and                      *)
(* targeted_graphics_extraction.py), as a step machine over the Python     *)
(* control flow: one action per loop test / token / appended byte;         *)
(* and of the code around it: the candidate scan and batch loop of main(), *)
(* the tile decoders, the quality scorer analyze_data_patterns and the     *)
(* tileset compositor save_tileset.                                        *)
(***************************************************************************)
EXTENDS Integers, Sequences, FiniteSets, TLC

\* ------------------------------------------------------------------------
\* Bounds of the input families
\* ------------------------------------------------------------------------
MaxPad == 1
MaxBody == 5
MaxShort == 5
MaxLits == 9

\* ------------------------------------------------------------------------
\* Program constants
\* ------------------------------------------------------------------------
MARKER == 16
SIZE_CAP == 65536
FLAG_MASK == 128
HEADER_LEN == 4

Copies == {"comprehensive", "targeted"}

\* ------------------------------------------------------------------------
\* Input families
\* ------------------------------------------------------------------------
SeqsUpTo(S, n) == UNION {[1..k -> S] : k \in 0..n}

\* a block starts at the head of the buffer or after MaxPad other bytes
Pads == {0, MaxPad}

Pad(p) == [k \in 1..p |-> 0]

\* the 4-byte header a block with declared size s carries
Header(s) == <<MARKER, s % 256, (s \div 256) % 256, (s \div 65536) % 256>>

\* a literal-only body: one 0x00 control byte before every 8 literals
LitBody(lits) ==
    LET n == Len(lits)
        total == n + ((n + 7) \div 8)
    IN  [k \in 1..total |->
            IF (k - 1) % 9 = 0 THEN 0
            ELSE lits[k - 1 - ((k - 1) \div 9)]]

ShortBytes == {0, 1, 16}
BodyBytes == {0, 1, 17, 34, 128}
LitBytes == {170, 187}
DeclaredSizes == {4}
LitSizes == {9}

ShortBuffers == SeqsUpTo(ShortBytes, MaxShort)

\* the calls checked: short buffers at every offset up to one past the end,
\* blocks at the offset where they start
ShortCalls == {<<buf, o>> : buf \in ShortBuffers, o \in 0..(MaxShort + 1)}
BlockCalls ==
    {<<Pad(p) \o Header(s) \o body, p>> :
        p \in Pads, s \in DeclaredSizes, body \in SeqsUpTo(BodyBytes, MaxBody)}
LitCalls ==
    {<<Pad(p) \o Header(s) \o LitBody(lits), p>> :
        p \in Pads, s \in LitSizes, lits \in SeqsUpTo(LitBytes, MaxLits)}
Calls == ShortCalls \cup BlockCalls \cup LitCalls

VARIABLES
    copy, data, offset,
    pc, pos, size, original_pos, output, control, i, distance, length, j,
    status, retNone, payload, compressed_size,
    srcReads, outReads, groups, tokStart, tokPos, zeroTok,
    mpc, scan_offset, candidates, cand_i, good_candidates, processed, results,
    tpc, tilesets,
    spc, analysis,
    cpc, tiles, tiles_per_row, image

inputs == <<copy, data, offset>>
locals == <<pos, size, original_pos, output, control, i, distance, length, j>>
ret == <<status, retNone, payload, compressed_size>>
hist == <<srcReads, outReads, groups, tokStart, tokPos, zeroTok>>
vars == <<copy, data, offset, pc, pos, size, original_pos, output, control, i,
          distance, length, j, status, retNone, payload, compressed_size,
          srcReads, outReads, groups, tokStart, tokPos, zeroTok,
          mpc, scan_offset, candidates, cand_i, good_candidates, processed,
          results, tpc, tilesets, spc, analysis, cpc, tiles, tiles_per_row, image>>

\* state of main(), of the tile decoders, of the scorer, of the compositor
mainVars == <<mpc, scan_offset, candidates, cand_i, good_candidates, processed,
              results>>
tileVars == <<tpc, tilesets>>
scoreVars == <<spc, analysis>>
compVars == <<cpc, tiles, tiles_per_row, image>>
ext == <<mainVars, tileVars, scoreVars, compVars>>
decVars == <<pc, pos, size, original_pos, output, control, i, distance, length,
             j, status, retNone, payload, compressed_size, srcReads, outReads,
             groups, tokStart, tokPos, zeroTok>>

NoTilesets ==
    [std |-> <<>>, rev |-> <<>>, one |-> <<>>, planar |-> <<>>,
     four |-> <<>>, raw |-> <<>>, inter |-> <<>>]
NoAnalysis == [score |-> 0, reason |-> "none"]

\* main() is not running
MainIdle ==
    /\ mpc = "idle"
    /\ scan_offset = 0
    /\ candidates = <<>>
    /\ cand_i = 0
    /\ good_candidates = <<>>
    /\ processed = <<>>
    /\ results = {}

\* no tile decoder, scorer or compositor call is running
TileIdle == tpc = "idle" /\ tilesets = NoTilesets
ScoreIdle == spc = "idle" /\ analysis = NoAnalysis
CompIdle == cpc = "idle" /\ tiles = <<>> /\ tiles_per_row = 16 /\ image = <<>>

\* ------------------------------------------------------------------------
\* Python sequence indexing (0-based; negative indices count from the end;
\* anything else raises IndexError)
\* ------------------------------------------------------------------------
PyValid(s, idx) == idx >= -Len(s) /\ idx < Len(s)
PyGet(s, idx) == IF idx >= 0 THEN s[idx + 1] ELSE s[Len(s) + idx + 1]

\* ------------------------------------------------------------------------
\* Pure pieces of the decoder
\* ------------------------------------------------------------------------
LE24(b0, b1, b2) == b0 + b1 * 256 + b2 * 65536

\* variant: the cap itself is rejected
SizeValidExclusive(s) == ~(s = 0 \/ s >= SIZE_CAP)

SizeValid(s) == ~(s = 0 \/ s > SIZE_CAP)

HeaderFits(p, n) == ~(p + 3 > n)

\* variant: the control byte is not consumed
AfterControlStuck(p) == p

\* line 32: pos += 1 after the control byte
AfterControl(p) == p + 1

WhileCond(nout, s, p, n) == nout < s /\ p < n

\* variant: the group stops one byte early
ForBreakEarly(nout, s, p, n) == nout + 1 >= s \/ p >= n

ForBreak(nout, s, p, n) == nout >= s \/ p >= n

Compressed(c) == (c \div FLAG_MASK) % 2 = 1

\* variant: only the first byte of the pair is checked
PairFitsOffByOne(p, n) == ~(p + 1 > n)

PairFits(p, n) == ~(p + 2 > n)

Distance(b1, b2) == (b1 % 16) * 256 + b2

\* variant: minimum copy length 2
TokLengthShort(b1) == (b1 \div 16) + 2

TokLength(b1) == (b1 \div 16) + 3

CopyFromOutput(nout, d) == nout > d

\* variant: distance counted from the last byte
BackRefIndexLast(nout, d) == nout - d

BackRefIndex(nout, d) == nout - d - 1

ConsumedCount(c, p, start) ==
    IF c = "comprehensive" THEN p - start + HEADER_LEN ELSE p - start

\* lines 11-12: everything but pos before the first statement runs
DecFresh ==
    /\ size = 0
    /\ original_pos = 0
    /\ output = <<>>
    /\ control = 0
    /\ i = 0
    /\ distance = 0
    /\ length = 0
    /\ j = 0
    /\ status = "running"
    /\ retNone = TRUE
    /\ payload = <<>>
    /\ compressed_size = 0
    /\ srcReads = {}
    /\ outReads = {}
    /\ groups = 0
    /\ tokStart = 0
    /\ tokPos = 0
    /\ zeroTok = <<>>

\* the locals of a call of decompress_lz77_safe(data, offset) at its entry
DecEntry ==
    /\ pc = "entry"
    /\ pos = offset
    /\ DecFresh

Init ==
    /\ copy \in Copies
    /\ \E call \in Calls : data = call[1] /\ offset = call[2]
    /\ DecEntry
    /\ MainIdle /\ TileIdle /\ ScoreIdle /\ CompIdle

\* return None, <message>
Fail(msg) ==
    /\ pc' = "done"
    /\ status' = msg
    /\ retNone' = TRUE
    /\ payload' = <<>>
    /\ compressed_size' = 0

\* lines 14-16: marker test
Entry ==
    /\ pc = "entry"
    /\ UNCHANGED ext
    /\ IF pos >= Len(data)
       THEN /\ Fail("No LZ77 marker")
            /\ UNCHANGED <<inputs, locals, hist>>
       ELSE /\ srcReads' = srcReads \cup {pos}
            /\ UNCHANGED <<outReads, groups, tokStart, tokPos, zeroTok>>
            /\ IF PyGet(data, pos) # MARKER
               THEN /\ Fail("No LZ77 marker")
                    /\ UNCHANGED <<inputs, locals>>
               ELSE /\ pos' = pos + 1
                    /\ pc' = "header"
                    /\ UNCHANGED <<inputs, ret, size, original_pos, output,
                                   control, i, distance, length, j>>

\* lines 18-26: declared size
ReadHeader ==
    /\ pc = "header"
    /\ UNCHANGED ext
    /\ IF ~HeaderFits(pos, Len(data))
       THEN /\ Fail("Size header truncated")
            /\ UNCHANGED <<inputs, locals, hist>>
       ELSE /\ srcReads' = srcReads \cup {pos, pos + 1, pos + 2}
            /\ UNCHANGED <<outReads, groups, tokStart, tokPos, zeroTok>>
            /\ IF \E r \in {pos, pos + 1, pos + 2} : ~PyValid(data, r)
               THEN /\ Fail("Error")
                    /\ UNCHANGED <<inputs, locals>>
               ELSE LET s == LE24(PyGet(data, pos), PyGet(data, pos + 1),
                                  PyGet(data, pos + 2))
                    IN  /\ size' = s
                        /\ pos' = pos + 3
                        /\ IF ~SizeValid(s)
                           THEN /\ Fail("Invalid size")
                                /\ UNCHANGED original_pos
                           ELSE /\ original_pos' = pos + 3
                                /\ pc' = "while"
                                /\ UNCHANGED ret
                        /\ UNCHANGED <<inputs, output, control, i, distance,
                                       length, j>>

\* lines 27-32: outer group loop test and control byte
WhileTest ==
    /\ pc = "while"
    /\ UNCHANGED ext
    /\ IF WhileCond(Len(output), size, pos, Len(data))
       THEN /\ srcReads' = srcReads \cup {pos}
            /\ UNCHANGED <<outReads, tokStart, tokPos, zeroTok>>
            /\ IF ~PyValid(data, pos)
               THEN /\ Fail("Error")
                    /\ UNCHANGED <<inputs, locals, groups>>
               ELSE /\ control' = PyGet(data, pos)
                    /\ pos' = AfterControl(pos)
                    /\ i' = 0
                    /\ groups' = groups + 1
                    /\ pc' = "for"
                    /\ UNCHANGED <<inputs, ret, size, original_pos, output,
                                   distance, length, j>>
       ELSE /\ pc' = "return"
            /\ UNCHANGED <<inputs, locals, ret, hist>>

\* lines 34-36: end of range(8) or break
ForExit ==
    /\ pc = "for"
    /\ UNCHANGED ext
    /\ i = 8 \/ ForBreak(Len(output), size, pos, Len(data))
    /\ pc' = "while"
    /\ UNCHANGED <<inputs, locals, ret, hist>>

\* lines 38-48: back-reference token
BackRef ==
    /\ pc = "for"
    /\ UNCHANGED ext
    /\ i < 8
    /\ ~ForBreak(Len(output), size, pos, Len(data))
    /\ Compressed(control)
    /\ IF ~PairFits(pos, Len(data))
       THEN /\ pc' = "while"
            /\ UNCHANGED <<inputs, locals, ret, hist>>
       ELSE /\ srcReads' = srcReads \cup {pos, pos + 1}
            /\ UNCHANGED <<outReads, groups>>
            /\ IF \E r \in {pos, pos + 1} : ~PyValid(data, r)
               THEN /\ Fail("Error")
                    /\ UNCHANGED <<inputs, locals, tokStart, tokPos, zeroTok>>
               ELSE LET byte1 == PyGet(data, pos)
                        byte2 == PyGet(data, pos + 1)
                        d == Distance(byte1, byte2)
                    IN  /\ pos' = pos + 2
                        /\ distance' = d
                        /\ length' = TokLength(byte1)
                        /\ j' = 0
                        /\ tokStart' = Len(output)
                        /\ tokPos' = pos
                        /\ IF d = 0
                           THEN /\ pc' = "while"
                                /\ zeroTok' = IF zeroTok = <<>>
                                              THEN <<pos + 2, Len(output)>>
                                              ELSE zeroTok
                           ELSE /\ pc' = "copy"
                                /\ UNCHANGED zeroTok
                        /\ UNCHANGED <<inputs, ret, size, original_pos,
                                       output, control, i>>

\* lines 50-54: one iteration of the copy loop
Copy ==
    /\ pc = "copy"
    /\ UNCHANGED ext
    /\ j < length
    /\ IF CopyFromOutput(Len(output), distance)
       THEN LET idx == BackRefIndex(Len(output), distance)
            IN  /\ outReads' = outReads \cup {<<idx, Len(output)>>}
                /\ IF ~PyValid(output, idx)
                   THEN /\ Fail("Error")
                        /\ UNCHANGED <<inputs, locals>>
                   ELSE /\ output' = Append(output, PyGet(output, idx))
                        /\ j' = j + 1
                        /\ pc' = IF j + 1 = length THEN "shift" ELSE "copy"
                        /\ UNCHANGED <<inputs, ret, pos, size, original_pos,
                                       control, i, distance, length>>
       ELSE /\ output' = Append(output, 0)
            /\ j' = j + 1
            /\ pc' = IF j + 1 = length THEN "shift" ELSE "copy"
            /\ UNCHANGED <<inputs, ret, pos, size, original_pos, control, i,
                           distance, length, outReads>>
    /\ UNCHANGED <<srcReads, groups, tokStart, tokPos, zeroTok>>

\* variant: the targeted copy also skips the literal in the last byte
LiteralSkippedLast(c, p, n) == c = "targeted" /\ ~(p + 1 < n)

\* targeted copy, line 56: if pos < len(data) around the literal
LiteralSkipped(c, p, n) == c = "targeted" /\ ~(p < n)

\* lines 55-57 (comprehensive) / 55-58 (targeted): literal token
Literal ==
    /\ pc = "for"
    /\ UNCHANGED ext
    /\ i < 8
    /\ ~ForBreak(Len(output), size, pos, Len(data))
    /\ ~Compressed(control)
    /\ IF LiteralSkipped(copy, pos, Len(data))
       THEN /\ pc' = "shift"
            /\ UNCHANGED <<inputs, locals, ret, hist>>
       ELSE /\ srcReads' = srcReads \cup {pos}
            /\ UNCHANGED <<outReads, groups, tokStart, tokPos, zeroTok>>
            /\ IF ~PyValid(data, pos)
               THEN /\ Fail("Error")
                    /\ UNCHANGED <<inputs, locals>>
               ELSE /\ output' = Append(output, PyGet(data, pos))
                    /\ pos' = pos + 1
                    /\ pc' = "shift"
                    /\ UNCHANGED <<inputs, ret, size, original_pos, control,
                                   i, distance, length, j>>

\* line 59 (60): control <<= 1, next i
Shift ==
    /\ pc = "shift"
    /\ UNCHANGED ext
    /\ control' = control * 2
    /\ i' = i + 1
    /\ pc' = "for"
    /\ UNCHANGED <<inputs, ret, hist, pos, size, original_pos, output,
                   distance, length, j>>

\* lines 61-62 (62-63): return bytes(output), "OK (...)"
Return ==
    /\ pc = "return"
    /\ UNCHANGED ext
    /\ compressed_size' = ConsumedCount(copy, pos, original_pos)
    /\ payload' = output
    /\ retNone' = FALSE
    /\ status' = "OK"
    /\ pc' = "done"
    /\ UNCHANGED <<inputs, locals, hist>>

Next ==
    \/ Entry
    \/ ReadHeader
    \/ WhileTest
    \/ ForExit
    \/ BackRef
    \/ Copy
    \/ Literal
    \/ Shift
    \/ Return

Spec == Init /\ [][Next]_vars

\* the comprehensive_graphics_analysis.py copy, every enabled step taken
InitFair == Init /\ copy = "comprehensive"

FairSpec == InitFair /\ [][Next]_vars /\ WF_vars(Next)

\* ========================================================================
\* Quality scorer: analyze_data_patterns (comprehensive_graphics_analysis.py)
\* ========================================================================
MIN_SCORED_LEN == 64
MIN_UNIQUE == 4
MAX_UNIQUE == 128
PATTERN_SPAN == 256
CHUNK_LEN == 16
TYPICAL_UNIQUE == 32
PROXIMITY_BASE == 50

\* line 92: gb_patterns
GbPatterns == <<0, 255, 240, 15, 24, 36, 66, 129>>

\* data[a:b] of Python, for 0 <= a
PySlice(s, a, b) ==
    LET hi == IF b < Len(s) THEN b ELSE Len(s)
    IN  IF a >= hi THEN <<>> ELSE [k \in 1..(hi - a) |-> s[a + k]]

\* line 72: Counter(data), as the set of its keys
Freq(s) == {s[k] : k \in DOMAIN s}

Abs(x) == IF x < 0 THEN -x ELSE x

Min2(a, b) == IF a < b THEN a ELSE b

\* line 87: sum(1 for b in chunk if b != 0)
RECURSIVE NonZero(_)
NonZero(chunk) ==
    IF chunk = <<>> THEN 0
    ELSE (IF Head(chunk) # 0 THEN 1 ELSE 0) + NonZero(Tail(chunk))

\* variant: a chunk with exactly 12 nonzero bytes does not count
TileLikeStrict(nz) == 4 <= nz /\ nz < 12

\* line 88
TileLike(nz) == 4 <= nz /\ nz <= 12

\* lines 82-89: the loop over range(0, min(len(data), 256), 16) from i on
RECURSIVE PatternScore(_, _)
PatternScore(s, from) ==
    IF from >= Min2(Len(s), PATTERN_SPAN) THEN 0
    ELSE LET chunk == PySlice(s, from, from + CHUNK_LEN)
             hit == Len(chunk) = CHUNK_LEN /\ TileLike(NonZero(chunk))
         IN  (IF hit THEN 1 ELSE 0) + PatternScore(s, from + CHUNK_LEN)

\* line 93: sum(1 for pattern in gb_patterns if pattern in freq)
RECURSIVE GbScore(_, _)
GbScore(pats, freq) ==
    IF pats = <<>> THEN 0
    ELSE (IF Head(pats) \in freq THEN 1 ELSE 0) + GbScore(Tail(pats), freq)

\* lines 66-102
AnalyzeDataPatterns(s) ==
    IF Len(s) < MIN_SCORED_LEN
    THEN [score |-> 0, reason |-> "Too short"]
    ELSE LET freq == Freq(s)
             unique_bytes == Cardinality(freq)
         IN  IF unique_bytes < MIN_UNIQUE
             THEN [score |-> 0, reason |-> "Too few unique bytes"]
             ELSE IF unique_bytes > MAX_UNIQUE
             THEN [score |-> 0, reason |-> "Too many unique bytes"]
             ELSE [score |-> PatternScore(s, 0) + GbScore(GbPatterns, freq)
                             + (PROXIMITY_BASE - Abs(unique_bytes - TYPICAL_UNIQUE)),
                   reason |-> "Analyzed"]

\* payloads handed to the scorer: n bytes, the first nz bytes of every
\* 16-byte window taken from base, base + 1, ..., base + m - 1 in turn, the
\* others 0
ScoreLens == {0, 63, 64, 65, 100, 255, 256, 272, 300}
ScoreMods == {1, 3, 4, 5, 32, 128, 129, 200}
ScoreFills == {0, 3, 4, 8, 12, 13, 16}
ScoreBases == {0, 1, 15, 56}
ScorePayload(n, m, nz, base) ==
    [k \in 1..n |-> IF (k - 1) % 16 < nz THEN base + ((k - 1) % m) ELSE 0]
ScorePayloads ==
    {ScorePayload(n, m, nz, base) :
        n \in ScoreLens, m \in ScoreMods, nz \in ScoreFills, base \in ScoreBases}

\* no call of decompress_lz77_safe is running
DecIdle ==
    /\ copy = "comprehensive"
    /\ offset = 0
    /\ pc = "idle"
    /\ pos = 0
    /\ DecFresh

InitScore ==
    /\ data \in ScorePayloads
    /\ DecIdle
    /\ MainIdle /\ TileIdle /\ CompIdle
    /\ spc = "call"
    /\ analysis = NoAnalysis

\* analysis = analyze_data_patterns(data)
Analyze ==
    /\ spc = "call"
    /\ analysis' = AnalyzeDataPatterns(data)
    /\ spc' = "done"
    /\ UNCHANGED <<inputs, decVars, mainVars, tileVars, compVars>>

NextScore == Analyze

ScoreSpec == InitScore /\ [][NextScore]_vars

\* ========================================================================
\* Tile decoders: extract_2bpp_standard, extract_2bpp_reversed,
\* extract_1bpp, extract_planar, extract_4bpp (final_graphics_solver.py),
\* extract_raw_tiles and the byte-interleaved loop of main()
\* (targeted_graphics_extraction.py)
\* ========================================================================
STRIDE_1BPP == 8
STRIDE_2BPP == 16
STRIDE_4BPP == 32
TILE_PIXELS == 64
RAW_COUNT == 64

\* (byte >> bit) & 1
Bit(byte, bit) == (byte \div (2 ^ bit)) % 2

\* range(7, -1, -1) and range(8)
MsbFirst == <<7, 6, 5, 4, 3, 2, 1, 0>>
LsbFirst == <<0, 1, 2, 3, 4, 5, 6, 7>>

\* data[a:b:2] of Python, for 0 <= a
PySliceStep2(s, a, b) ==
    LET hi == IF b < Len(s) THEN b ELSE Len(s)
    IN  IF a >= hi THEN <<>>
        ELSE [k \in 1..((hi - a + 1) \div 2) |-> s[a + 2 * (k - 1) + 1]]

\* variant: the high plane is not shifted
RowPixelsFlat(byte1, byte2, bits) ==
    [c \in 1..8 |-> IF Bit(byte1, bits[c]) + Bit(byte2, bits[c]) > 0
                    THEN 1 ELSE 0]

\* the inner loop over bit: ((byte1 >> bit) & 1) | (((byte2 >> bit) & 1) << 1)
RowPixels(byte1, byte2, bits) ==
    [c \in 1..8 |-> Bit(byte1, bits[c]) + 2 * Bit(byte2, bits[c])]

\* the loop over row of the 2bpp decoders, from row on
RECURSIVE Tile2bpp(_, _, _)
Tile2bpp(tile_data, bits, row) ==
    IF row >= 8 THEN <<>>
    ELSE (IF row * 2 + 1 < Len(tile_data)
          THEN RowPixels(tile_data[row * 2 + 1], tile_data[row * 2 + 2], bits)
          ELSE <<>>)
         \o Tile2bpp(tile_data, bits, row + 1)

\* if len(tile) == 64: tiles.append(tile)
Emit(tile) == IF Len(tile) = TILE_PIXELS THEN <<tile>> ELSE <<>>

\* variant: a stride that ends exactly at the end of the data stops the loop
StrideShortStrict(k, stride, n) == k + stride >= n

\* if i + stride > len(data): break
StrideShort(k, stride, n) == k + stride > n

\* the loop over range(0, len(data), 16) of the 2bpp decoders, from k on
RECURSIVE Extract2bppFrom(_, _, _)
Extract2bppFrom(s, bits, k) ==
    IF k >= Len(s) \/ StrideShort(k, STRIDE_2BPP, Len(s)) THEN <<>>
    ELSE Emit(Tile2bpp(PySlice(s, k, k + STRIDE_2BPP), bits, 0))
         \o Extract2bppFrom(s, bits, k + STRIDE_2BPP)

extract_2bpp_standard(s) == Extract2bppFrom(s, MsbFirst, 0)

\* the copy of comprehensive_graphics_analysis.py
extract_2bpp_tiles(s) == Extract2bppFrom(s, MsbFirst, 0)

\* variant: the reversed decoder reads the bits in the standard order
ReversedBitsSame == MsbFirst

ReversedBits == LsbFirst

extract_2bpp_reversed(s) == Extract2bppFrom(s, ReversedBits, 0)

\* the loop over the bytes of an 8-byte tile, from byte b on
RECURSIVE Tile1bpp(_, _)
Tile1bpp(tile_data, b) ==
    IF b > Len(tile_data) THEN <<>>
    ELSE [c \in 1..8 |-> Bit(tile_data[b], MsbFirst[c]) * 3]
         \o Tile1bpp(tile_data, b + 1)

RECURSIVE Extract1bppFrom(_, _)
Extract1bppFrom(s, k) ==
    IF k >= Len(s) \/ StrideShort(k, STRIDE_1BPP, Len(s)) THEN <<>>
    ELSE Emit(Tile1bpp(PySlice(s, k, k + STRIDE_1BPP), 1))
         \o Extract1bppFrom(s, k + STRIDE_1BPP)

extract_1bpp(s) == Extract1bppFrom(s, 0)

\* the copy of comprehensive_graphics_analysis.py
extract_1bpp_tiles(s) == Extract1bppFrom(s, 0)

\* variant: the high plane is read from the first half too
PlaneTwoSame(s, half) == PySlice(s, 0, half)

\* plane2 = data[half:]
PlaneTwo(s, half) == PySlice(s, half, Len(s))

\* the loop over row of extract_planar, from row on
RECURSIVE TilePlanar(_, _, _, _)
TilePlanar(plane1, plane2, k, row) ==
    IF row >= 8 THEN <<>>
    ELSE (IF row < Len(PySlice(plane1, k, k + 8))
             /\ row < Len(PySlice(plane2, k, k + 8))
          THEN RowPixels(plane1[k + row + 1], plane2[k + row + 1], MsbFirst)
          ELSE <<>>)
         \o TilePlanar(plane1, plane2, k, row + 1)

RECURSIVE ExtractPlanarFrom(_, _, _)
ExtractPlanarFrom(plane1, plane2, k) ==
    IF k >= Min2(Len(plane1), Len(plane2)) \/ k + 8 > Len(plane1) THEN <<>>
    ELSE Emit(TilePlanar(plane1, plane2, k, 0))
         \o ExtractPlanarFrom(plane1, plane2, k + 8)

extract_planar(s) ==
    LET half == Len(s) \div 2
    IN  ExtractPlanarFrom(PySlice(s, 0, half), PlaneTwo(s, half), 0)

\* variant: the nibble is kept as it is
FoldNone(v) == v

\* pixel % 4: the 16 levels folded to 4 for display
Fold(v) == v % 4

\* the loops over row and byte_idx of extract_4bpp, from row on
RECURSIVE Tile4bpp(_, _)
Tile4bpp(tile_data, row) ==
    IF row >= 8 THEN <<>>
    ELSE (IF row * 4 + 4 <= Len(tile_data)
          THEN [c \in 1..8 |->
                   LET byte_val == tile_data[row * 4 + ((c - 1) \div 2) + 1]
                   IN  IF (c - 1) % 2 = 0
                       THEN Fold((byte_val \div 16) % 16)
                       ELSE Fold(byte_val % 16)]
          ELSE <<>>)
         \o Tile4bpp(tile_data, row + 1)

RECURSIVE Extract4bppFrom(_, _)
Extract4bppFrom(s, k) ==
    IF k >= Len(s) \/ StrideShort(k, STRIDE_4BPP, Len(s)) THEN <<>>
    ELSE Emit(Tile4bpp(PySlice(s, k, k + STRIDE_4BPP), 0))
         \o Extract4bppFrom(s, k + STRIDE_4BPP)

extract_4bpp(s) == Extract4bppFrom(s, 0)

\* extract_raw_tiles(data, offset, count): the loop over tile_num, with
\* left iterations to go
RECURSIVE ExtractRawFrom(_, _, _)
ExtractRawFrom(s, p, left) ==
    IF left = 0 \/ p + STRIDE_2BPP > Len(s) THEN <<>>
    ELSE Emit(Tile2bpp(PySlice(s, p, p + STRIDE_2BPP), MsbFirst, 0))
         \o ExtractRawFrom(s, p + STRIDE_2BPP, left - 1)

extract_raw_tiles(s, o, count) == ExtractRawFrom(s, o, count)

\* the row loop of the interleaved format
TileInterleaved(plane1, plane2) ==
    RowPixels(plane1[1], plane2[1], MsbFirst)
    \o RowPixels(plane1[2], plane2[2], MsbFirst)
    \o RowPixels(plane1[3], plane2[3], MsbFirst)
    \o RowPixels(plane1[4], plane2[4], MsbFirst)
    \o RowPixels(plane1[5], plane2[5], MsbFirst)
    \o RowPixels(plane1[6], plane2[6], MsbFirst)
    \o RowPixels(plane1[7], plane2[7], MsbFirst)
    \o RowPixels(plane1[8], plane2[8], MsbFirst)

\* variant: the window advances by one tile
InterleavedNextTile(k) == k + 16

\* the step of range(0, len(region_data) - 16, 32)
InterleavedNext(k) == k + 32

\* the loop over range(0, len(region_data) - 16, 32), from k on
RECURSIVE ExtractInterleavedFrom(_, _)
ExtractInterleavedFrom(s, k) ==
    IF k >= Len(s) - 16 \/ k + 32 > Len(s) THEN <<>>
    ELSE LET plane1 == PySliceStep2(s, k, k + 16)
             plane2 == PySliceStep2(s, k + 1, k + 16)
         IN  (IF Len(plane1) = 8 /\ Len(plane2) = 8
              THEN Emit(TileInterleaved(plane1, plane2))
              ELSE <<>>)
             \o ExtractInterleavedFrom(s, InterleavedNext(k))

extract_interleaved(s) == ExtractInterleavedFrom(s, 0)

\* payloads handed to the tile decoders: n bytes, byte k = (a * k + b) % 256
MaxTileLen == 70
TileSeeds == {<<7, 3>>, <<37, 129>>, <<113, 64>>, <<0, 255>>}
TilePayload(n, seed) == [k \in 1..n |-> (seed[1] * (k - 1) + seed[2]) % 256]
TilePayloads == {TilePayload(n, seed) : n \in 0..MaxTileLen, seed \in TileSeeds}

InitTile ==
    /\ data \in TilePayloads
    /\ DecIdle
    /\ MainIdle /\ ScoreIdle /\ CompIdle
    /\ tpc = "std"
    /\ tilesets = NoTilesets

TileFrame == UNCHANGED <<inputs, decVars, mainVars, scoreVars, compVars>>

DecodeStandard ==
    /\ tpc = "std"
    /\ tilesets' = [tilesets EXCEPT !.std = extract_2bpp_standard(data)]
    /\ tpc' = "rev"
    /\ TileFrame

DecodeReversed ==
    /\ tpc = "rev"
    /\ tilesets' = [tilesets EXCEPT !.rev = extract_2bpp_reversed(data)]
    /\ tpc' = "1bpp"
    /\ TileFrame

Decode1bpp ==
    /\ tpc = "1bpp"
    /\ tilesets' = [tilesets EXCEPT !.one = extract_1bpp(data)]
    /\ tpc' = "planar"
    /\ TileFrame

DecodePlanar ==
    /\ tpc = "planar"
    /\ tilesets' = [tilesets EXCEPT !.planar = extract_planar(data)]
    /\ tpc' = "4bpp"
    /\ TileFrame

Decode4bpp ==
    /\ tpc = "4bpp"
    /\ tilesets' = [tilesets EXCEPT !.four = extract_4bpp(data)]
    /\ tpc' = "raw"
    /\ TileFrame

DecodeRaw ==
    /\ tpc = "raw"
    /\ tilesets' = [tilesets EXCEPT !.raw = extract_raw_tiles(data, 0, RAW_COUNT)]
    /\ tpc' = "inter"
    /\ TileFrame

DecodeInterleaved ==
    /\ tpc = "inter"
    /\ tilesets' = [tilesets EXCEPT !.inter = extract_interleaved(data)]
    /\ tpc' = "tdone"
    /\ TileFrame
\* ========================================================================
\* Compositor: save_tileset (final_graphics_solver.py,
\* targeted_graphics_extraction.py; comprehensive_graphics_analysis.py with
\* tiles_per_row fixed to 16)
\* ========================================================================
BACKGROUND == 255

\* colors = [255, 170, 85, 0]
Colors == <<255, 170, 85, 0>>

\* variant: a last, partly filled row of tiles is not drawn
RowsNeededFloor(n, w) == n \div w

\* rows = (len(tiles) + tiles_per_row - 1) // tiles_per_row
RowsNeeded(n, w) == (n + w - 1) \div w

\* the loop over col for tile row `row` and pixel line y, from col on
RECURSIVE ComposeRow(_, _, _, _, _)
ComposeRow(ts, w, row, y, col) ==
    IF col >= w THEN <<>>
    ELSE LET tile_idx == row * w + col
         IN  (IF tile_idx < Len(ts)
              THEN [x \in 1..8 |-> Colors[ts[tile_idx + 1][y * 8 + x] + 1]]
              ELSE [x \in 1..8 |-> BACKGROUND])
             \o ComposeRow(ts, w, row, y, col + 1)

\* the loops over row and y: one row_pixels list per pixel line
Compose(ts, w) ==
    [ln \in 1..(RowsNeeded(Len(ts), w) * 8) |->
        ComposeRow(ts, w, (ln - 1) \div 8, (ln - 1) % 8, 0)]

\* tile lists handed to the compositor: n tiles of 64 indices in 0..3
MaxCompTiles == 18
CompWidths == {1, 3, 16}
CompSeeds == {1, 3, 6}
CompTile(t, seed) == [q \in 1..64 |-> ((q \div seed) + t) % 4]
CompTiles(n, seed) == [t \in 1..n |-> CompTile(t, seed)]

InitComp ==
    /\ data = <<>>
    /\ DecIdle
    /\ MainIdle /\ TileIdle /\ ScoreIdle
    /\ cpc = "call"
    /\ \E n \in 0..MaxCompTiles : \E seed \in CompSeeds : tiles = CompTiles(n, seed)
    /\ tiles_per_row \in CompWidths
    /\ image = <<>>

\* save_tileset(tiles, filename, tiles_per_row)
SaveTileset ==
    /\ cpc = "call"
    /\ IF tiles = <<>>
       THEN /\ cpc' = "False"
            /\ UNCHANGED image
       ELSE /\ image' = Compose(tiles, tiles_per_row)
            /\ cpc' = "True"
    /\ UNCHANGED <<inputs, decVars, mainVars, tileVars, scoreVars, tiles,
                   tiles_per_row>>

NextComp == SaveTileset

CompSpec == InitComp /\ [][NextComp]_vars

\* ------------------------------------------------------------------------
\* The tile decoders applied one after another to a payload, and one of the
\* decoded tilesets composed
\* ------------------------------------------------------------------------
\* the formats whose tiles are handed to save_tileset
SavedFormats == {"std", "rev", "one", "planar", "four", "raw", "inter"}

\* if tiles: save_tileset(tiles, filename), for one of the decoded tilesets
SaveDecoded ==
    /\ tpc = "tdone"
    /\ \E f \in SavedFormats :
          /\ tilesets[f] # <<>>
          /\ tiles' = tilesets[f]
          /\ image' = Compose(tilesets[f], tiles_per_row)
    /\ cpc' = "True"
    /\ tpc' = "saved"
    /\ UNCHANGED <<inputs, decVars, mainVars, scoreVars, tilesets,
                   tiles_per_row>>

NextTile ==
    \/ DecodeStandard
    \/ DecodeReversed
    \/ Decode1bpp
    \/ DecodePlanar
    \/ Decode4bpp
    \/ DecodeRaw
    \/ DecodeInterleaved
    \/ SaveDecoded

TileSpec == InitTile /\ [][NextTile]_vars
\* ========================================================================
\* main() of comprehensive_graphics_analysis.py: the candidate scan and the
\* batch loop over the candidates
\* ========================================================================
MIN_PLAUSIBLE == 128
MAX_PLAUSIBLE == 16384
SCAN_TAIL == 4
SCORE_THRESHOLD == 20
DEFAULT_TILES_PER_ROW == 16

\* the end of range(0, len(rom_data) - 4)
ScanEnd(n) == n - SCAN_TAIL

\* 0x80 <= size <= 0x4000
Plausible(s) == MIN_PLAUSIBLE <= s /\ s <= MAX_PLAUSIBLE

\* if data:
Truthy(none, bytes) == ~none /\ bytes # <<>>

\* analysis['score'] > 20
Promising(a) == a.score > SCORE_THRESHOLD

\* variant: the first candidate that is not promising ends the loop
AfterCandidateAbort(idx, good, n) == IF good THEN idx + 1 ELSE n

\* the next turn of the for loop over candidates
AfterCandidate(idx, good, n) == idx + 1

\* variant: the output of the previous call is kept
FreshOutputLeaked(prev) == prev

\* output = bytearray()
FreshOutput(prev) == <<>>

\* ROM images: short buffers over a few byte values, and one or two of the
\* segments below laid end to end
MaxRaw == 5
RawBytes == {0, 16, 128}
RawRoms == SeqsUpTo(RawBytes, MaxRaw)

\* declared size 0x80; decodes to 76 bytes with 4 distinct values
GoodBlock == <<16, 128, 0, 0, 15, 0, 24, 36, 66, 240, 3, 240, 3, 240, 3, 240, 3>>
\* declared size 0x80, one control byte and no token
EmptyBlock == <<16, 128, 0, 0, 0>>
\* declared size 0x4000, two literals
SmallBlock == <<16, 0, 64, 0, 0, 1, 2>>
\* two overlapping headers, at +0 (size 0x1000) and +2 (size 0x100)
OverlapBlock == <<16, 0, 16, 0, 1, 0, 0>>
\* declared sizes 0x4001 and 0x7F
TooBigBlock == <<16, 1, 64, 0, 0>>
TooSmallBlock == <<16, 127, 0, 0, 0>>
Segments ==
    {<<>>, <<0>>, GoodBlock, EmptyBlock, SmallBlock, OverlapBlock, TooBigBlock,
     TooSmallBlock}
PairRoms == {a \o b : a \in Segments, b \in Segments}
Roms == RawRoms \cup PairRoms

InitMain ==
    /\ copy = "comprehensive"
    /\ data \in Roms
    /\ offset = 0
    /\ pc = "idle"
    /\ pos = 0
    /\ DecFresh
    /\ mpc = "scan"
    /\ scan_offset = 0
    /\ candidates = <<>>
    /\ cand_i = 0
    /\ good_candidates = <<>>
    /\ processed = <<>>
    /\ results = {}
    /\ TileIdle /\ ScoreIdle /\ CompIdle

\* lines 234-238: one turn of the scan loop
ScanStep ==
    /\ mpc = "scan"
    /\ scan_offset < ScanEnd(Len(data))
    /\ candidates' =
          IF PyGet(data, scan_offset) = MARKER
          THEN LET s == LE24(PyGet(data, scan_offset + 1),
                             PyGet(data, scan_offset + 2),
                             PyGet(data, scan_offset + 3))
               IN  IF Plausible(s)
                   THEN Append(candidates, <<scan_offset, s>>)
                   ELSE candidates
          ELSE candidates
    /\ scan_offset' = scan_offset + 1
    /\ UNCHANGED <<inputs, decVars, mpc, cand_i, good_candidates, processed,
                   results, tileVars, scoreVars, compVars>>

\* line 234: range exhausted
ScanDone ==
    /\ mpc = "scan"
    /\ ~(scan_offset < ScanEnd(Len(data)))
    /\ mpc' = "batch"
    /\ cand_i' = 0
    /\ UNCHANGED <<inputs, decVars, scan_offset, candidates, good_candidates,
                   processed, results, tileVars, scoreVars, compVars>>

\* lines 11-12: the locals of a new call decompress_lz77_safe(data, o)
DecLocals(o) ==
    /\ offset' = o
    /\ pc' = "entry"
    /\ pos' = o
    /\ size' = 0
    /\ original_pos' = 0
    /\ output' = FreshOutput(output)
    /\ control' = 0
    /\ i' = 0
    /\ distance' = 0
    /\ length' = 0
    /\ j' = 0
    /\ status' = "running"
    /\ retNone' = TRUE
    /\ payload' = <<>>
    /\ compressed_size' = 0
    /\ srcReads' = {}
    /\ outReads' = {}
    /\ groups' = 0
    /\ tokStart' = 0
    /\ tokPos' = 0
    /\ zeroTok' = <<>>

\* line 248: the call decompress_lz77_safe(rom_data, o)
DecCall(o) ==
    /\ DecLocals(o)
    /\ UNCHANGED <<copy, data>>

\* lines 247-248: the next candidate is handed to the decompressor
BatchCall ==
    /\ mpc = "batch"
    /\ cand_i < Len(candidates)
    /\ DecCall(candidates[cand_i + 1][1])
    /\ processed' = Append(processed, candidates[cand_i + 1][1])
    /\ mpc' = "decode"
    /\ UNCHANGED <<scan_offset, candidates, cand_i, good_candidates, results,
                   tileVars, scoreVars, compVars>>

\* what lines 248-259 compute for the candidate at offset
ResultOf(a) ==
    [offset |-> offset, none |-> retNone, payload |-> payload,
     status |-> status, score |-> a.score]

\* lines 257-262: the decompressor has returned; score the payload and keep a
\* promising candidate
BatchAfter ==
    /\ mpc = "decode"
    /\ pc = "done"
    /\ LET a == IF Truthy(retNone, payload)
                THEN AnalyzeDataPatterns(payload) ELSE NoAnalysis
           good == Truthy(retNone, payload) /\ Promising(a)
       IN  /\ analysis' = a
           /\ spc' = IF Truthy(retNone, payload) THEN "done" ELSE spc
           /\ results' = results \cup {ResultOf(a)}
           /\ IF good
              THEN /\ good_candidates' =
                         Append(good_candidates, <<offset, payload, a>>)
                   /\ mpc' = "formats"
                   /\ UNCHANGED cand_i
              ELSE /\ mpc' = "batch"
                   /\ cand_i' = AfterCandidate(cand_i, FALSE, Len(candidates))
                   /\ UNCHANGED good_candidates
    /\ UNCHANGED <<inputs, decVars, scan_offset, candidates, processed,
                   tileVars, compVars>>

\* lines 104-122: test_different_formats extracts the 2bpp and the 1bpp tiles
FormatsTilesets(bytes) ==
    [NoTilesets EXCEPT !.std = extract_2bpp_tiles(bytes),
                       !.one = extract_1bpp_tiles(bytes)]

\* the tileset of the last save_tileset call of test_different_formats
LastSaved(ts) == IF ts.one # <<>> THEN ts.one ELSE ts.std

\* lines 265-267 with 109-110 and 118-119: the tile decoders run
TestFormats ==
    /\ mpc = "formats"
    /\ tilesets' = FormatsTilesets(payload)
    /\ tpc' = "tdone"
    /\ mpc' = "save"
    /\ UNCHANGED <<inputs, decVars, scan_offset, candidates, cand_i,
                   good_candidates, processed, results, scoreVars, compVars>>

\* lines 111-112 and 120-121: the non-empty tilesets are composed and saved;
\* then the next turn of the batch loop
SaveFormats ==
    /\ mpc = "save"
    /\ IF LastSaved(tilesets) # <<>>
       THEN /\ tiles' = LastSaved(tilesets)
            /\ image' = Compose(LastSaved(tilesets), DEFAULT_TILES_PER_ROW)
            /\ cpc' = "True"
            /\ UNCHANGED tiles_per_row
       ELSE UNCHANGED compVars
    /\ cand_i' = AfterCandidate(cand_i, TRUE, Len(candidates))
    /\ mpc' = "batch"
    /\ UNCHANGED <<inputs, decVars, scan_offset, candidates, good_candidates,
                   processed, results, tileVars, scoreVars>>

\* line 247: the candidate list is exhausted
BatchDone ==
    /\ mpc = "batch"
    /\ ~(cand_i < Len(candidates))
    /\ mpc' = "done"
    /\ UNCHANGED <<inputs, decVars, scan_offset, candidates, cand_i,
                   good_candidates, processed, results, tileVars, scoreVars,
                   compVars>>

NextMain ==
    \/ ScanStep
    \/ ScanDone
    \/ BatchCall
    \/ Entry
    \/ ReadHeader
    \/ WhileTest
    \/ ForExit
    \/ BackRef
    \/ Copy
    \/ Literal
    \/ Shift
    \/ Return
    \/ BatchAfter
    \/ TestFormats
    \/ SaveFormats
    \/ BatchDone

MainSpec == InitMain /\ [][NextMain]_vars

\* every enabled step of main() is eventually taken
FairMainSpec == InitMain /\ [][NextMain]_vars /\ WF_vars(NextMain)

\* the scan->decode->score chains of the candidates run in any order, one at
\* a time, a candidate possibly more than once, MaxPicks calls in all
MaxPicks == 3

PickCall ==
    /\ mpc = "batch"
    /\ Len(processed) < MaxPicks
    /\ \E k \in 1..Len(candidates) :
          /\ DecCall(candidates[k][1])
          /\ processed' = Append(processed, candidates[k][1])
    /\ mpc' = "decode"
    /\ UNCHANGED <<scan_offset, candidates, cand_i, good_candidates, results,
                   tileVars, scoreVars, compVars>>

NextOrder ==
    \/ ScanStep
    \/ ScanDone
    \/ PickCall
    \/ Entry
    \/ ReadHeader
    \/ WhileTest
    \/ ForExit
    \/ BackRef
    \/ Copy
    \/ Literal
    \/ Shift
    \/ Return
    \/ BatchAfter
    \/ TestFormats
    \/ SaveFormats

InitOrder == InitMain /\ data \in PairRoms

OrderSpec == InitOrder /\ [][NextOrder]_vars
\* ========================================================================
\* The two copies of decompress_lz77_safe called on the same buffer and
\* offset, the comprehensive_graphics_analysis.py copy first
\* ========================================================================
InitEquiv ==
    /\ copy = "comprehensive"
    /\ \E call \in Calls : data = call[1] /\ offset = call[2]
    /\ DecEntry
    /\ mpc = "first"
    /\ scan_offset = 0
    /\ candidates = <<>>
    /\ cand_i = 0
    /\ good_candidates = <<>>
    /\ processed = <<>>
    /\ results = {}
    /\ TileIdle /\ ScoreIdle /\ CompIdle

\* what a finished call hands back, with the source positions it read
CallResult ==
    [copy |-> copy, none |-> retNone, payload |-> payload, status |-> status,
     reads |-> srcReads]

\* the first copy has returned: the other copy is called with the same
\* arguments
SecondCall ==
    /\ mpc = "first"
    /\ pc = "done"
    /\ results' = {CallResult}
    /\ copy' = "targeted"
    /\ DecLocals(offset)
    /\ mpc' = "second"
    /\ UNCHANGED <<data, scan_offset, candidates, cand_i, good_candidates,
                   processed, tileVars, scoreVars, compVars>>

NextEquiv ==
    \/ Entry
    \/ ReadHeader
    \/ WhileTest
    \/ ForExit
    \/ BackRef
    \/ Copy
    \/ Literal
    \/ Shift
    \/ Return
    \/ SecondCall

EquivSpec == InitEquiv /\ [][NextEquiv]_vars

\* ------------------------------------------------------------------------
\* Claims
\* ------------------------------------------------------------------------
Returned == pc = "done" /\ ~retNone

\* C1: whenever a payload is returned, its length does not exceed the
\* declared size read from the header.
C1_PayloadWithinDeclared == Returned => Len(payload) <= size

\* C2: every read of the source buffer uses an index in 0..len(data)-1 and
\* every back-reference read of the output uses an index in
\* 0..len(output)-1 (the output length at the moment of the read).
C2_ReadsInBounds ==
    /\ \A r \in srcReads : r >= 0 /\ r <= Len(data) - 1
    /\ \A o \in outReads : o[1] >= 0 /\ o[1] <= o[2] - 1
    /\ status # "Error"

\* C2 witness: a decode that read the last byte of the buffer as part of a
\* token and also read back from its output.
C2_Witness ==
    /\ pc = "done"
    /\ (Len(data) - 1) \in srcReads
    /\ outReads # {}
    /\ offset > 0

\* C3: every group iteration consumes at least one source byte past the
\* header (so the number of group iterations is bounded by the bytes
\* available from offset on), and the decoder always reaches its return.
C3_Terminates ==
    /\ [](groups > 0 => (offset + HEADER_LEN + groups <= pos /\ pos <= Len(data)
                         /\ groups <= Len(data) - offset))
    /\ <>(pc = "done")

\* C3 witness: a finished decode that went through more than one group.
C3_Witness == pc = "done" /\ groups >= 2 /\ ~retNone

\* C4: once a back-reference token with distance 0 has been met, the read
\* position and the output length stay what they were at that moment, and
\* the call ends with status Truncated and that output.
C4_ZeroDistanceStops ==
    zeroTok # <<>> =>
        /\ pos = zeroTok[1]
        /\ Len(output) = zeroTok[2]
        /\ pc = "done" => (status = "Truncated" /\ Len(payload) = zeroTok[2])

\* a back-reference token with distance d and length l has been copied in
\* full, and the output ended with 0x11, 0x22 when the token was met
BackRefAfter1122(d, l) ==
    /\ length = l
    /\ j = length
    /\ distance = d
    /\ tokStart >= 2
    /\ output[tokStart - 1] = 17
    /\ output[tokStart] = 34

\* C5 (as stated): output ending 0x11, 0x22 followed by a back-reference
\* with distance 1 and length 3 appends 0x22, 0x22, 0x22.
C5_BackRefLawOriginal ==
    BackRefAfter1122(1, 3) =>
        SubSeq(output, tokStart + 1, tokStart + 3) = <<34, 34, 34>>

\* C5 (amended): output ending 0x11, 0x22 followed by a back-reference with
\* distance 1 and length 3 appends 0x11, 0x22, 0x11: each copy reads the
\* byte distance + 1 positions before the end.
C5_BackRefLaw ==
    BackRefAfter1122(1, 3) =>
        SubSeq(output, tokStart + 1, tokStart + 3) = <<17, 34, 17>>

\* C5 witness: such a token has just been copied.
C5_Witness == BackRefAfter1122(1, 3) /\ pc = "shift" /\ pos = tokPos + 2

\* C6: for a back-reference token (b1, b2) with nonzero distance
\* ((b1 & 0xF) << 8) | b2 and length (b1 >> 4) + 3, the bytes appended so
\* far each equal the output byte distance + 1 positions earlier, or the
\* filler 0 when the output was not longer than distance at that append;
\* bytes are appended one per step and exactly length of them in all.
C6_BackRefCopy ==
    (length > 0 /\ distance # 0) =>
        LET b1 == data[tokPos + 1]
            b2 == data[tokPos + 2]
            d == ((b1 % 16) * 256) + b2
            l == (b1 \div 16) + 3
        IN  /\ distance = d
            /\ length = l
            /\ j <= l
            /\ Len(output) >= tokStart + j
            /\ \A k \in (tokStart + 1)..(tokStart + j) :
                  output[k] = IF k - 1 > d THEN output[k - d - 1] ELSE 0
            /\ pc = "copy" => (j < l /\ Len(output) = tokStart + j)
            /\ (pc = "shift" /\ pos = tokPos + 2) =>
                  (j = l /\ Len(output) = tokStart + l)

\* C6 witness: a completed self-overlapping copy that read real output.
C6_Witness ==
    /\ pc = "shift"
    /\ pos = tokPos + 2
    /\ distance # 0
    /\ j = length
    /\ tokStart > distance
    /\ distance + 1 < length
    /\ output[tokStart] # output[tokStart - 1]

\* C7: a payload shorter than the declared size is returned with status
\* Truncated, and status OK is returned only for a payload of exactly the
\* declared size.
C7_TruncatedStatus ==
    Returned =>
        /\ Len(payload) < size => status = "Truncated"
        /\ status = "OK" => Len(payload) = size

\* the declared size the 3 bytes after offset encode, little-endian
DeclaredAt(o) == data[o + 2] + 256 * data[o + 3] + 65536 * data[o + 4]

\* C8: a byte other than 0x10 at offset fails with the invalid-marker
\* status; a declared size of 0 or above 0x10000 fails with the
\* invalid-size status; in both cases nothing is returned and no body byte
\* is read; a declared size of exactly 0x10000 is accepted.
C8_HeaderValidation ==
    pc = "done" =>
        /\ (offset < Len(data) /\ data[offset + 1] # 16) =>
              /\ status = "No LZ77 marker"
              /\ retNone
              /\ srcReads \subseteq {offset}
              /\ groups = 0 /\ output = <<>>
        /\ (offset + 4 <= Len(data) /\ data[offset + 1] = 16
              /\ (DeclaredAt(offset) = 0 \/ DeclaredAt(offset) > 65536)) =>
              /\ status = "Invalid size"
              /\ retNone
              /\ srcReads \subseteq offset..(offset + 3)
              /\ groups = 0 /\ output = <<>>
        /\ (offset + 4 <= Len(data) /\ data[offset + 1] = 16
              /\ DeclaredAt(offset) = 65536) =>
              /\ status = "OK"
              /\ ~retNone

\* C8 witness: a call rejected for a declared size above the cap.
C8_Witness ==
    /\ pc = "done"
    /\ offset > 0
    /\ offset + 4 <= Len(data)
    /\ data[offset + 1] = 16
    /\ DeclaredAt(offset) > 65536
    /\ retNone

\* 0-based source index of literal k (k = 0, 1, ...) of a literal-only body
LitIndex(o, k) == o + 4 + (k \div 8) + 1 + k

\* the block at offset o is well formed, every control byte its first s
\* literals need is 0x00, and those s literals lie inside the buffer
LiteralOnlyBlock(o, s) ==
    /\ s >= 1
    /\ s <= Len(data)
    /\ LitIndex(o, s - 1) < Len(data)
    /\ \A g \in 0..((s - 1) \div 8) : data[o + 4 + 9 * g + 1] = 0

\* C9: for a literal-only block holding at least S literals, the payload
\* is exactly the first S literals in source order and the status is OK.
C9_LiteralRoundTrip ==
    (pc = "done" /\ offset + 4 <= Len(data) /\ data[offset + 1] = 16
        /\ DeclaredAt(offset) <= 65536
        /\ LiteralOnlyBlock(offset, DeclaredAt(offset))) =>
        /\ ~retNone
        /\ status = "OK"
        /\ Len(payload) = DeclaredAt(offset)
        /\ \A k \in 1..DeclaredAt(offset) :
              payload[k] = data[LitIndex(offset, k - 1) + 1]

\* C9 witness: a literal-only block spanning two groups, at offset 1, whose
\* literals are not all equal.
C9_Witness ==
    /\ pc = "done"
    /\ offset = 1
    /\ offset + 4 <= Len(data)
    /\ data[offset + 1] = 16
    /\ DeclaredAt(offset) = 9
    /\ LiteralOnlyBlock(offset, 9)
    /\ data[LitIndex(offset, 7) + 1] # data[LitIndex(offset, 8) + 1]

\* C10: whenever a payload is returned, the reported consumed-byte count is
\* the final read position minus offset (header included) and
\* offset + consumed stays inside the buffer.
C10_ConsumedCount ==
    Returned =>
        /\ compressed_size = pos - offset
        /\ offset + compressed_size <= Len(data)

\* number of distinct byte values of the scored payload
UniqueCount == Cardinality({data[k] : k \in 1..Len(data)})

\* full 16-byte windows at offsets 0, 16, ..., 240 with 4..12 nonzero bytes
DensityHits ==
    Cardinality({w \in 0..15 :
        /\ 16 * w + 16 <= Len(data)
        /\ Cardinality({k \in 1..16 : data[16 * w + k] # 0}) \in 4..12})

\* how many of the 8 reference values occur in the payload
SignatureHits ==
    Cardinality({v \in {0, 255, 240, 15, 24, 36, 66, 129} :
        \E k \in 1..Len(data) : data[k] = v})

\* C14: the score is 0 for a payload shorter than 64 bytes or with fewer
\* than 4 or more than 128 distinct bytes, and D + G + (50 - |U - 32|)
\* otherwise.
C14_Score ==
    spc = "done" =>
        analysis.score =
            IF Len(data) < 64 \/ UniqueCount < 4 \/ UniqueCount > 128
            THEN 0
            ELSE DensityHits + SignatureHits
                 + (IF UniqueCount >= 32 THEN 50 - (UniqueCount - 32)
                    ELSE 50 - (32 - UniqueCount))

\* C14 witness: a scored payload longer than 256 bytes with a window of
\* exactly 12 nonzero bytes, some reference values, and a nonzero score.
C14_Witness ==
    /\ spc = "done"
    /\ Len(data) > 256
    /\ UniqueCount \in 4..128
    /\ DensityHits = 16
    /\ Cardinality({k \in 1..16 : data[k] # 0}) = 12
    /\ SignatureHits >= 2
    /\ analysis.score > 0

\* all tile decoders have returned
TileDone == tpc = "tdone"

\* every tile of a tileset has 64 indices in 0..3
WellFormedTiles(ts) ==
    \A k \in 1..Len(ts) :
        Len(ts[k]) = 64 /\ \A q \in 1..64 : ts[k][q] \in 0..3

\* C12: the 2bpp-standard decoder emits floor(n/16) tiles of 64 indices in
\* byte-offset order; pixel (r, c) of tile k is bit (7-c) of payload[16k+2r]
\* plus twice bit (7-c) of payload[16k+2r+1]; a partial trailing stride is
\* dropped.
C12_StandardTiles ==
    TileDone =>
        /\ Len(tilesets.std) = Len(data) \div 16
        /\ WellFormedTiles(tilesets.std)
        /\ \A k \in 0..(Len(tilesets.std) - 1) : \A r \in 0..7 : \A c \in 0..7 :
              tilesets.std[k + 1][8 * r + c + 1] =
                  ((data[16 * k + 2 * r + 1] \div (2 ^ (7 - c))) % 2)
                  + 2 * ((data[16 * k + 2 * r + 2] \div (2 ^ (7 - c))) % 2)
        /\ extract_2bpp_tiles(data) = tilesets.std

\* C12 witness: a 33-byte payload decoded to 2 tiles, the trailing byte
\* dropped, with all four indices occurring.
C12_Witness ==
    /\ TileDone
    /\ Len(data) = 33
    /\ Len(tilesets.std) = 2
    /\ \A v \in 0..3 : \E k \in 1..2 : \E q \in 1..64 : tilesets.std[k][q] = v

\* C13 as stated: a payload whose length is not a multiple of the stride
\* yields an empty tileset from the 1bpp, 2bpp-standard, 2bpp-alt-order and
\* 4bpp decoders.
C13_FormatMismatchOriginal ==
    TileDone =>
        /\ Len(data) % 8 # 0 => tilesets.one = <<>>
        /\ Len(data) % 16 # 0 => tilesets.std = <<>> /\ tilesets.rev = <<>>
        /\ Len(data) % 32 # 0 => tilesets.four = <<>>

\* C13 (amended): each fixed-stride decoder yields floor(n/stride) well-formed
\* tiles, so the tileset is empty exactly when the payload is shorter than one
\* stride; the trailing bytes of a longer payload are dropped and no decoder
\* fails.
C13_FormatMismatch ==
    TileDone =>
        /\ Len(tilesets.one) = Len(data) \div 8
        /\ Len(tilesets.std) = Len(data) \div 16
        /\ Len(tilesets.rev) = Len(data) \div 16
        /\ Len(tilesets.four) = Len(data) \div 32
        /\ WellFormedTiles(tilesets.one)
        /\ WellFormedTiles(tilesets.std)
        /\ WellFormedTiles(tilesets.rev)
        /\ WellFormedTiles(tilesets.four)
        /\ (tilesets.one = <<>>) = (Len(data) < 8)
        /\ (tilesets.std = <<>>) = (Len(data) < 16)
        /\ (tilesets.rev = <<>>) = (Len(data) < 16)
        /\ (tilesets.four = <<>>) = (Len(data) < 32)

\* C13 witness: a 39-byte payload, a multiple of no stride, decoded to 4, 2,
\* 2 and 1 tiles.
C13_Witness ==
    /\ TileDone
    /\ Len(data) = 39
    /\ Len(tilesets.one) = 4
    /\ Len(tilesets.std) = 2
    /\ Len(tilesets.rev) = 2
    /\ Len(tilesets.four) = 1

\* C18: the 2bpp-alt-order decoder emits as many tiles as the 2bpp-standard
\* decoder and each of its tiles is the horizontal mirror of the standard
\* tile: alt[k][8r+c] = standard[k][8r+(7-c)].
C18_AltOrderMirror ==
    TileDone =>
        /\ Len(tilesets.rev) = Len(tilesets.std)
        /\ \A k \in 1..Len(tilesets.rev) :
              /\ Len(tilesets.rev[k]) = 64
              /\ \A r \in 0..7 : \A c \in 0..7 :
                    tilesets.rev[k][8 * r + c + 1] =
                        tilesets.std[k][8 * r + (7 - c) + 1]

\* C18 witness: two tiles decoded in both orders, the alt-order tiles
\* different from the standard ones.
C18_Witness ==
    /\ TileDone
    /\ Len(tilesets.rev) >= 2
    /\ tilesets.rev[1] # tilesets.std[1]
    /\ tilesets.rev[2] # tilesets.std[2]

\* C19: with h = floor(n/2) the planar-split decoder emits floor(h/8) tiles;
\* pixel (r, c) of tile t is bit (7-c) of payload[8t+r] plus twice bit (7-c)
\* of payload[h+8t+r], also when n is odd.
C19_PlanarSplit ==
    TileDone =>
        LET h == Len(data) \div 2
        IN  /\ Len(tilesets.planar) = h \div 8
            /\ \A t \in 0..(Len(tilesets.planar) - 1) :
                  /\ Len(tilesets.planar[t + 1]) = 64
                  /\ \A r \in 0..7 : \A c \in 0..7 :
                        tilesets.planar[t + 1][8 * r + c + 1] =
                            ((data[8 * t + r + 1] \div (2 ^ (7 - c))) % 2)
                            + 2 * ((data[h + 8 * t + r + 1] \div (2 ^ (7 - c))) % 2)

\* C19 witness: an odd-length payload decoded to 2 planar tiles in which a
\* pixel has only its high-plane bit set and another only its low-plane bit.
C19_Witness ==
    /\ TileDone
    /\ Len(data) % 2 = 1
    /\ Len(tilesets.planar) = 2
    /\ \E q \in 1..64 : tilesets.planar[2][q] = 2
    /\ \E q \in 1..64 : tilesets.planar[2][q] = 1

\* C20: the byte-interleaved decoding yields floor(n/32) tiles and its k-th
\* tile is tile 2k of the 2bpp-standard decoding of the same payload.
C20_InterleavedRefines ==
    TileDone =>
        /\ Len(tilesets.inter) = Len(data) \div 32
        /\ \A k \in 0..(Len(tilesets.inter) - 1) :
              /\ 2 * k + 1 <= Len(tilesets.raw)
              /\ tilesets.inter[k + 1] = tilesets.raw[2 * k + 1]
              /\ 2 * k + 1 <= Len(tilesets.std)
              /\ tilesets.inter[k + 1] = tilesets.std[2 * k + 1]

\* C20 witness: two interleaved tiles, the second equal to the third standard
\* tile and different from the second.
C20_Witness ==
    /\ TileDone
    /\ Len(tilesets.inter) = 2
    /\ Len(tilesets.raw) >= 4
    /\ tilesets.inter[2] = tilesets.raw[3]
    /\ tilesets.inter[2] # tilesets.raw[2]

\* ceil(n / w)
CeilDiv(n, w) == IF n % w = 0 THEN n \div w ELSE (n \div w) + 1

\* C15: for n > 0 tiles and tilesPerRow = w the canvas is 8w wide and
\* 8*ceil(n/w) high; pixel (y, x) of tile t is at row 8*(t div w)+y, column
\* 8*(t mod w)+x with intensity palette[tile[8y+x]]; every cell of a grid
\* position >= n is 255.
C15_Canvas ==
    cpc = "True" =>
        LET n == Len(tiles)
            w == tiles_per_row
            palette == <<255, 170, 85, 0>>
        IN  /\ Len(image) = 8 * CeilDiv(n, w)
            /\ \A ln \in 1..Len(image) : Len(image[ln]) = 8 * w
            /\ \A t \in 0..(n - 1) : \A y \in 0..7 : \A x \in 0..7 :
                  image[8 * (t \div w) + y + 1][8 * (t % w) + x + 1] =
                      palette[tiles[t + 1][8 * y + x + 1] + 1]
            /\ \A g \in n..(CeilDiv(n, w) * w - 1) : \A y \in 0..7 : \A x \in 0..7 :
                  image[8 * (g \div w) + y + 1][8 * (g % w) + x + 1] = 255

\* C15 witness: 12 tiles composed 16 per row into a 128x8 canvas whose last
\* 4 tile-columns are background and whose first 12 hold other intensities.
C15_Witness ==
    /\ cpc = "True"
    /\ Len(tiles) = 12
    /\ tiles_per_row = 16
    /\ Len(image) = 8
    /\ Len(image[1]) = 128
    /\ \A ln \in 1..8 : \A col \in 97..128 : image[ln][col] = 255
    /\ \E ln \in 1..8 : \E col \in 1..96 : image[ln][col] = 0

\* the offsets of the candidate list, in list order
CandidateOffsets == [k \in 1..Len(candidates) |-> candidates[k][1]]

\* the scan has run to its end
Scanned == mpc \in {"batch", "decode", "formats", "save", "done"}

\* offsets with the marker, at least 3 bytes after them and a plausible size
PlausibleOffsets ==
    {o \in 0..(Len(data) - 1) :
        /\ data[o + 1] = 16
        /\ o + 3 <= Len(data) - 1
        /\ LE24(data[o + 2], data[o + 3], data[o + 4]) \in 128..16384}

\* C11: the scan emits, in ascending order and without suppressing
\* overlapping hits, exactly the offsets o with buffer[o] = 0x10, at least 3
\* bytes after o and a little-endian 24-bit size in [0x80, 0x4000].
C11_ScanExact ==
    Scanned =>
        /\ \A k \in 1..(Len(candidates) - 1) :
              CandidateOffsets[k] < CandidateOffsets[k + 1]
        /\ {CandidateOffsets[k] : k \in 1..Len(candidates)} = PlausibleOffsets
        /\ \A k \in 1..Len(candidates) :
              candidates[k][2] =
                  LE24(data[candidates[k][1] + 2], data[candidates[k][1] + 3],
                       data[candidates[k][1] + 4])

\* C16: every candidate is eventually decoded exactly once in list order; a
\* failing candidate never stops or skips the candidates after it.
C16_BatchCompletes ==
    /\ [](/\ Len(processed) <= Len(candidates)
          /\ \A k \in 1..Len(processed) : processed[k] = CandidateOffsets[k]
          /\ mpc = "batch" => Len(processed) = cand_i
          /\ mpc \in {"decode", "formats", "save"} => Len(processed) = cand_i + 1
          /\ mpc = "done" => processed = CandidateOffsets)
    /\ <>(mpc = "done" /\ processed = CandidateOffsets)

\* C16 witness: the batch ended with two candidates decoded in list order,
\* the first scored at or below the threshold, the second kept.
C16_Witness ==
    /\ mpc = "done"
    /\ Len(processed) = 2
    /\ processed[1] < processed[2]
    /\ \E r \in results :
          r.offset = processed[1] /\ r.payload # <<>> /\ r.score <= 20
    /\ Len(good_candidates) = 1
    /\ good_candidates[1][1] = processed[2]

C21_IndicesInPalette ==
    /\ \A f \in {"std", "rev", "one", "planar", "four", "inter", "raw"} :
          \A k \in 1..Len(tilesets[f]) :
              /\ Len(tilesets[f][k]) = 64
              /\ \A q \in 1..64 :
                    /\ tilesets[f][k][q] \in {0, 1, 2, 3}
                    /\ tilesets[f][k][q] + 1 \in DOMAIN <<255, 170, 85, 0>>
    /\ \A k \in 1..Len(tilesets.one) : \A q \in 1..64 :
          tilesets.one[k][q] \in {0, 3}
    /\ tpc = "saved" =>
          /\ Len(image) = 8 * ((Len(tiles) + 15) \div 16)
          /\ \A ln \in 1..Len(image) :
                /\ Len(image[ln]) = 128
                /\ \A col \in 1..128 : image[ln][col] \in {255, 170, 85, 0}

\* C21 witness: a 4bpp tileset decoded from bytes with nibbles above 3 has
\* been composed, next to 1bpp tiles holding both 0 and 3.
C21_Witness ==
    /\ tpc = "saved"
    /\ tilesets.four # <<>>
    /\ tiles = tilesets.four
    /\ \E k \in 1..32 : data[k] % 16 > 3 /\ (data[k] \div 16) % 16 > 3
    /\ \E q \in 1..64 : tilesets.one[1][q] = 0
    /\ \E q \in 1..64 : tilesets.one[1][q] = 3
    /\ \E ln \in 1..8 : \E col \in 1..8 : image[ln][col] # 255

\* both copies have returned
BothReturned == mpc = "second" /\ pc = "done"

\* C22: on the same buffer and offset the two copies of decompress_lz77_safe
\* either both return no payload with the same failure kind or both return
\* the same payload, after reading the same source positions.
C22_CopiesEquivalent ==
    BothReturned =>
        \A r \in results :
            /\ r.copy = "comprehensive"
            /\ copy = "targeted"
            /\ r.none = retNone
            /\ r.status = status
            /\ r.payload = payload
            /\ r.reads = srcReads

\* C22 witness: both copies returned the same non-empty payload of a block
\* whose data ends on a literal before the declared size is reached.
C22_Witness ==
    /\ BothReturned
    /\ ~retNone
    /\ Len(payload) >= 2
    /\ Len(payload) < size
    /\ pos = Len(data)
    /\ payload[Len(payload)] = data[Len(data)]
    /\ data[Len(data)] # 0
    /\ \E r \in results : r.payload = payload /\ ~r.none

====
